---- MODULE Spec2Model ----
(***************************************************************************)
(* The multi-feature similarity scorer of the audio-fingerprinting         *)
(* repository: enhanced_similarity_detection and the interpretation step   *)
(* of main_enhanced_analysis (src/enhanced_similarity_detector.py).        *)
(*                                                                         *)
(* Numbers.  The code computes in IEEE doubles.  The model computes in     *)
(* exact rationals [n, d] (d > 0, lowest terms) and keeps the one special  *)
(* double the code can produce, NaN, as [n |-> 0, d |-> 0].  Rounding of   *)
(* the last bit is therefore not modelled.  Scalar summary fields are      *)
(* integers in an arbitrary unit; the two energy ratios are integers in    *)
(* units of 1/RatioDen; vector coefficients are integers.                  *)
(*                                                                         *)
(* Exceptions.  A Python exception raised inside the scorer is the value   *)
(* of the variable raised (the exception's class name); the function then  *)
(* returns nothing, and result stays the empty sequence.                   *)
(***************************************************************************)
EXTENDS Integers, Sequences, FiniteSets, TLC

\* ------------------------------------------------------------------ bounds
\* Largest value of a scalar summary field (duration, energy, ...).
MaxVal == 3
\* Energy ratios are k / RatioDen for k in 0..MaxRatioNum.
RatioDen == 2
MaxRatioNum == 3
\* Vector fields (mfcc_mean, chroma_mean): coefficients in 0..MaxCoef,
\* lengths in 1..MaxLen.
MaxCoef == 1
MaxLen == 3
\* The longest short fingerprint string.
MaxStrLen == 3
\* The most comparisons one process runs.
MaxRuns == 3
\* Scores handed to the two label tables: k / GridDen for k in
\* -GridDen..2 * GridDen, and NaN.
GridDen == 20

\* --------------------------------------------------------------- rationals
Abs(x) == IF x < 0 THEN -x ELSE x

Max(a, b) == IF a >= b THEN a ELSE b

RECURSIVE GCD(_, _)
GCD(a, b) == IF b = 0 THEN a ELSE GCD(b, a % b)

\* The rational n/d (d # 0) in lowest terms with a positive denominator.
Rat(n, d) ==
    LET g == GCD(Abs(n), Abs(d))
        s == IF d < 0 THEN -1 ELSE 1
    IN  [n |-> s * (n \div g), d |-> s * (d \div g)]

NaN == [n |-> 0, d |-> 0]
IsNaN(x) == x.d = 0
Zero == [n |-> 0, d |-> 1]
One == [n |-> 1, d |-> 1]

\* IEEE arithmetic on non-NaN operands is exact here; NaN is absorbing.
RAdd(x, y) ==
    IF IsNaN(x) \/ IsNaN(y) THEN NaN ELSE Rat(x.n * y.d + y.n * x.d, x.d * y.d)
RSub(x, y) ==
    IF IsNaN(x) \/ IsNaN(y) THEN NaN ELSE Rat(x.n * y.d - y.n * x.d, x.d * y.d)
\* x > y, x >= y as Python evaluates them: False when either side is NaN.
RGt(x, y) == ~IsNaN(x) /\ ~IsNaN(y) /\ x.n * y.d > y.n * x.d
RGe(x, y) == ~IsNaN(x) /\ ~IsNaN(y) /\ x.n * y.d >= y.n * x.d

\* Python's max(0, x): x when x > 0, else the first argument 0.
PyMax0(x) == IF RGt(x, Zero) THEN x ELSE Zero

\* --------------------------------------------------------------- summaries
RECURSIVE SeqsOfLen(_, _)
SeqsOfLen(S, k) ==
    IF k = 0 THEN {<<>>}
    ELSE {Append(s, x) : s \in SeqsOfLen(S, k - 1), x \in S}

Vectors == UNION {SeqsOfLen(0..MaxCoef, k) : k \in 1..MaxLen}

Scalars == 0..MaxVal
Ratios == 0..MaxRatioNum

\* The similarity features, in the order the code inserts them in the dict.
Features ==
    <<"duration", "energy", "spectral_centroid", "spectral_rolloff", "mfcc",
      "chroma", "tempo", "harmonic_ratio", "percussive_ratio">>

FeatureSet == {Features[i] : i \in 1..Len(Features)}

\* The dictionary analyze_audio_characteristics returns.
SummaryFields ==
    {"duration", "sample_rate", "rms_energy", "zero_crossing_rate_mean",
     "spectral_centroid_mean", "spectral_rolloff_mean",
     "spectral_bandwidth_mean", "mfcc_mean", "chroma_mean", "tempo",
     "harmonic_ratio", "percussive_ratio"}

FieldValues(f) ==
    IF f \in {"mfcc_mean", "chroma_mean"} THEN Vectors
    ELSE IF f \in {"harmonic_ratio", "percussive_ratio"} THEN Ratios
    ELSE Scalars

\* An ordinary clip: every scalar positive, both vectors non-constant.
BaseSummary ==
    [duration |-> MaxVal, sample_rate |-> 1, rms_energy |-> 1,
     zero_crossing_rate_mean |-> 1, spectral_centroid_mean |-> MaxVal,
     spectral_rolloff_mean |-> MaxVal, spectral_bandwidth_mean |-> 1,
     mfcc_mean |-> <<0, 1>>, chroma_mean |-> <<0, 0, 1>>, tempo |-> MaxVal,
     harmonic_ratio |-> 1, percussive_ratio |-> 0]

\* Every summary that differs from c in at most one field.
Variants(c) ==
    UNION {{[c EXCEPT ![f] = v] : v \in FieldValues(f)} : f \in SummaryFields}

\* What the feature extractor may hand to the scorer for the first clip: the
\* ordinary clip and every summary one field away from it.
Summaries == Variants(BaseSummary)

\* ... and for the second clip: the same, or a summary one field away from
\* the first clip's.
SecondSummaries(c1) == Summaries \cup Variants(c1)

\* ------------------------------------------------------------- the scorer
RECURSIVE SumSeq(_)
SumSeq(s) == IF s = <<>> THEN 0 ELSE Head(s) + SumSeq(Tail(s))

\* Elementwise product of the common prefix of two vectors.
Products(x, y) == [i \in 1..(IF Len(x) <= Len(y) THEN Len(x) ELSE Len(y)) |-> x[i] * y[i]]

\* n * (sum of squared deviations) resp. n * (sum of co-deviations): the
\* entries of numpy's covariance matrix up to the common factor n * (n - 1).
CoDev(x, y) == Len(x) * SumSeq(Products(x, y)) - SumSeq(x) * SumSeq(y)

ISqrt(k) == CHOOSE r \in 0..k : r * r <= k /\ (r + 1) * (r + 1) > k

IsSquare(k) == ISqrt(k) * ISqrt(k) = k

\* np.corrcoef(x, y) raises ValueError when the two arrays cannot be stacked.
CorrRaises(x, y) == Len(x) # Len(y)

\* np.corrcoef(x, y)[0, 1] for stackable x, y.  With fewer than two
\* elements the covariance is 0 * inf = NaN; with a constant vector it is
\* 0 / 0 = NaN; numpy warns and returns NaN in both cases.
Pearson(x, y) ==
    IF Len(x) < 2 THEN NaN
    ELSE IF CoDev(x, x) = 0 \/ CoDev(y, y) = 0 THEN NaN
    ELSE Rat(CoDev(x, y), ISqrt(CoDev(x, x) * CoDev(y, y)))

\* The pairs of vectors whose correlation the model represents exactly.
ExactCorr(x, y) ==
    \/ CorrRaises(x, y)
    \/ Len(x) < 2
    \/ IsSquare(CoDev(x, x) * CoDev(y, y))

\* a / b raises ZeroDivisionError on b == 0.
ClosenessRaises(a, b) == Max(a, b) = 0

\* Mutant: the difference taken relative to the first clip's value.
ClosenessRelativeToFirst(a, b) ==
    IF a = 0 THEN Zero ELSE PyMax0(RSub(One, Rat(Abs(a - b), a)))

\* Mutant: the difference normalised by a + b instead of max(a, b).
ClosenessOverSum(a, b) == PyMax0(RSub(One, Rat(Abs(a - b), a + b)))

\* max(0, 1 - abs(a - b) / max(a, b))
Closeness(a, b) == PyMax0(RSub(One, Rat(Abs(a - b), Max(a, b))))

\* Mutant: the ratio difference normalised by magnitude, as a closeness
\* feature is.
RatioSimilarityNormalised(a, b) ==
    IF Max(a, b) = 0 THEN One ELSE PyMax0(RSub(One, Rat(Abs(a - b), Max(a, b))))

\* max(0, 1 - abs(a - b)) on ratios a / RatioDen, b / RatioDen
RatioSimilarity(a, b) == PyMax0(RSub(One, Rat(Abs(a - b), RatioDen)))

\* The summary field a similarity feature is computed from.
FieldOf(f) ==
    CASE f = "duration" -> "duration"
      [] f = "energy" -> "rms_energy"
      [] f = "spectral_centroid" -> "spectral_centroid_mean"
      [] f = "spectral_rolloff" -> "spectral_rolloff_mean"
      [] f = "mfcc" -> "mfcc_mean"
      [] f = "chroma" -> "chroma_mean"
      [] f = "tempo" -> "tempo"
      [] f = "harmonic_ratio" -> "harmonic_ratio"
      [] f = "percussive_ratio" -> "percussive_ratio"

ClosenessFeatures ==
    {"duration", "energy", "spectral_centroid", "spectral_rolloff", "tempo"}
CorrelationFeatures == {"mfcc", "chroma"}
RatioFeatures == {"harmonic_ratio", "percussive_ratio"}

\* The exception the statement computing feature f raises, or "none".
FeatureRaises(f, c1, c2) ==
    IF f \in ClosenessFeatures /\ ClosenessRaises(c1[FieldOf(f)], c2[FieldOf(f)])
    THEN "ZeroDivisionError"
    ELSE IF f \in CorrelationFeatures /\ CorrRaises(c1[FieldOf(f)], c2[FieldOf(f)])
    THEN "ValueError"
    ELSE "none"

\* The value the statement computing feature f stores in similarities[f].
FeatureSimilarity(f, c1, c2) ==
    IF f \in ClosenessFeatures THEN Closeness(c1[FieldOf(f)], c2[FieldOf(f)])
    ELSE IF f \in CorrelationFeatures THEN Pearson(c1[FieldOf(f)], c2[FieldOf(f)])
    ELSE RatioSimilarity(c1[FieldOf(f)], c2[FieldOf(f)])

\* The statements run in the order of Features; the first exception ends
\* the call.
RaisingFeatures(c1, c2) ==
    {i \in 1..Len(Features) : FeatureRaises(Features[i], c1, c2) # "none"}

FirstRaise(c1, c2) ==
    IF RaisingFeatures(c1, c2) = {} THEN "none"
    ELSE LET i == CHOOSE j \in RaisingFeatures(c1, c2) :
                      \A k \in RaisingFeatures(c1, c2) : j <= k
         IN  FeatureRaises(Features[i], c1, c2)

RECURSIVE RSum(_)
RSum(s) == IF s = <<>> THEN Zero ELSE RAdd(Head(s), RSum(Tail(s)))

\* Mutant: the mean taken before the last feature is stored.
MeanOfEight(sims) ==
    LET total == RSum([i \in 1..(Len(Features) - 1) |-> sims[Features[i]]])
    IN  IF IsNaN(total) THEN NaN ELSE Rat(total.n, total.d * (Len(Features) - 1))

\* np.mean(list(similarities.values()))
Mean(sims) ==
    LET total == RSum([i \in 1..Len(Features) |-> sims[Features[i]]])
    IN  IF IsNaN(total) THEN NaN ELSE Rat(total.n, total.d * Len(Features))

\* The dictionary enhanced_similarity_detection returns.
Report(c1, c2) ==
    LET sims == [f \in FeatureSet |-> FeatureSimilarity(f, c1, c2)]
    IN  [characteristics1 |-> c1, characteristics2 |-> c2,
         similarities |-> sims, overall_similarity |-> Mean(sims)]

\* The if/elif chain of main_enhanced_analysis.
Interpretation(overall) ==
    IF RGe(overall, Rat(4, 5)) THEN "VERY SIMILAR"
    ELSE IF RGe(overall, Rat(3, 5)) THEN "SIMILAR"
    ELSE IF RGe(overall, Rat(2, 5)) THEN "SOMEWHAT SIMILAR"
    ELSE IF RGe(overall, Rat(1, 5)) THEN "SLIGHTLY SIMILAR"
    ELSE "DIFFERENT"

\* Mutant: each tier checked as a closed range of [0, 1], so that a score
\* outside the range falls through to the last branch.
InterpretSimilarityRanged(similarity_score) ==
    IF RGe(similarity_score, Rat(19, 20)) /\ RGe(One, similarity_score)
    THEN "IDENTICAL - Same audio file"
    ELSE IF RGe(similarity_score, Rat(4, 5)) /\ RGe(One, similarity_score)
    THEN "VERY SIMILAR - Likely same content with minor differences"
    ELSE IF RGe(similarity_score, Rat(3, 5)) /\ RGe(One, similarity_score)
    THEN "SIMILAR - Related audio content"
    ELSE IF RGe(similarity_score, Rat(2, 5)) /\ RGe(One, similarity_score)
    THEN "SOMEWHAT SIMILAR - Some common characteristics"
    ELSE IF RGe(similarity_score, Rat(1, 5)) /\ RGe(One, similarity_score)
    THEN "SLIGHTLY SIMILAR - Minimal common features"
    ELSE "DIFFERENT - Unrelated audio content"

\* Mutant: the 0.95 tier placed at 0.9.
InterpretSimilarityAt90(similarity_score) ==
    IF RGe(similarity_score, Rat(9, 10)) THEN "IDENTICAL - Same audio file"
    ELSE IF RGe(similarity_score, Rat(4, 5))
    THEN "VERY SIMILAR - Likely same content with minor differences"
    ELSE IF RGe(similarity_score, Rat(3, 5)) THEN "SIMILAR - Related audio content"
    ELSE IF RGe(similarity_score, Rat(2, 5))
    THEN "SOMEWHAT SIMILAR - Some common characteristics"
    ELSE IF RGe(similarity_score, Rat(1, 5))
    THEN "SLIGHTLY SIMILAR - Minimal common features"
    ELSE "DIFFERENT - Unrelated audio content"

\* interpret_similarity of audio_similarity_detector.py: the string returned.
InterpretSimilarity(similarity_score) ==
    IF RGe(similarity_score, Rat(19, 20)) THEN "IDENTICAL - Same audio file"
    ELSE IF RGe(similarity_score, Rat(4, 5))
    THEN "VERY SIMILAR - Likely same content with minor differences"
    ELSE IF RGe(similarity_score, Rat(3, 5)) THEN "SIMILAR - Related audio content"
    ELSE IF RGe(similarity_score, Rat(2, 5))
    THEN "SOMEWHAT SIMILAR - Some common characteristics"
    ELSE IF RGe(similarity_score, Rat(1, 5))
    THEN "SLIGHTLY SIMILAR - Minimal common features"
    ELSE "DIFFERENT - Unrelated audio content"

\* The scores the two label tables are run on.
Scores == {Rat(k, GridDen) : k \in (-GridDen)..(2 * GridDen)} \cup {NaN}

\* ------------------------------------------------------------------ state
\* ------------------------------------------------- fingerprint strings
\* Fingerprints are strings (hex digests, encoded chromaprints), here
\* sequences of one-character strings over a small alphabet.
Alphabet == {"a", "b", "c"}

\* difflib's autojunk heuristic applies to a second sequence of at least
\* this many items.
AutojunkMinLen == 200

Repeat(c, n) == [i \in 1..n |-> c]

ShortStrings == UNION {[1..l -> Alphabet] : l \in 0..MaxStrLen}
LongStrings == {Repeat(c, AutojunkMinLen) : c \in Alphabet}

\* SequenceMatcher.__chain_b: with autojunk, the items of a long b that occur
\* more than len(b) // 100 + 1 times are "popular" and are dropped from
\* the index b2j.
Popular(b) ==
    IF Len(b) >= AutojunkMinLen
    THEN {c \in {b[j] : j \in 1..Len(b)} :
            Cardinality({j \in 1..Len(b) : b[j] = c}) > (Len(b) \div 100) + 1}
    ELSE {}

\* Positions are Python's: a[i] of the code is a[i + 1] here, windows are
\* alo <= i < ahi and blo <= j < bhi.
\* The length of the run of equal items from (i, j) that b2j can chain.
RECURSIVE RunLen(_, _, _, _, _, _, _)
RunLen(a, b, popular, i, j, ahi, bhi) ==
    IF i < ahi /\ j < bhi /\ a[i + 1] = b[j + 1] /\ b[j + 1] \notin popular
    THEN 1 + RunLen(a, b, popular, i + 1, j + 1, ahi, bhi)
    ELSE 0

RECURSIVE ExtendBack(_, _, _, _, _, _, _)
ExtendBack(a, b, i, j, k, alo, blo) ==
    IF i > alo /\ j > blo /\ a[i] = b[j]
    THEN ExtendBack(a, b, i - 1, j - 1, k + 1, alo, blo)
    ELSE <<i, j, k>>

RECURSIVE ExtendForward(_, _, _, _, _, _, _)
ExtendForward(a, b, i, j, k, ahi, bhi) ==
    IF i + k < ahi /\ j + k < bhi /\ a[i + k + 1] = b[j + k + 1]
    THEN ExtendForward(a, b, i, j, k + 1, ahi, bhi)
    ELSE <<i, j, k>>

\* SequenceMatcher.find_longest_match: the longest block the index finds
\* (the earliest in a, then the earliest in b; (alo, blo, 0) if none),
\* then extended on both sides while the items are equal.
find_longest_match(a, b, popular, alo, ahi, blo, bhi) ==
    LET sizes == {RunLen(a, b, popular, i, j, ahi, bhi) :
                     i \in alo..(ahi - 1), j \in blo..(bhi - 1)} \cup {0}
        bestsize == CHOOSE k \in sizes : \A m \in sizes : m <= k
        is == {i \in alo..(ahi - 1) : \E j \in blo..(bhi - 1) :
                  RunLen(a, b, popular, i, j, ahi, bhi) = bestsize}
        besti == CHOOSE i \in is : \A m \in is : i <= m
        js == {j \in blo..(bhi - 1) :
                  RunLen(a, b, popular, besti, j, ahi, bhi) = bestsize}
        bestj == CHOOSE j \in js : \A m \in js : j <= m
        back == ExtendBack(a, b, besti, bestj, bestsize, alo, blo)
    IN  IF bestsize = 0
        THEN ExtendForward(a, b, alo, blo, 0, ahi, bhi)
        ELSE ExtendForward(a, b, back[1], back[2], back[3], ahi, bhi)

\* SequenceMatcher.get_matching_blocks, summed: the block of the window, then
\* the windows left and right of it.
RECURSIVE MatchTotal(_, _, _, _, _, _, _)
MatchTotal(a, b, popular, alo, ahi, blo, bhi) ==
    LET x == find_longest_match(a, b, popular, alo, ahi, blo, bhi)
        i == x[1]
        j == x[2]
        k == x[3]
    IN  IF k = 0 THEN 0
        ELSE k
             + (IF alo < i /\ blo < j
                THEN MatchTotal(a, b, popular, alo, i, blo, j) ELSE 0)
             + (IF i + k < ahi /\ j + k < bhi
                THEN MatchTotal(a, b, popular, i + k, ahi, j + k, bhi) ELSE 0)

Matches(a, b) == MatchTotal(a, b, Popular(b), 0, Len(a), 0, Len(b))

\* A ratio that is 0 for a zero total length (mutant).
RatioZeroWhenEmpty(a, b) ==
    IF Len(a) + Len(b) = 0 THEN Zero
    ELSE Rat(2 * Matches(a, b), Len(a) + Len(b))

\* SequenceMatcher(None, a, b).ratio(): 2.0 * matches / length, 1.0 for a
\* zero length.
SequenceMatcherRatio(a, b) ==
    IF Len(a) + Len(b) = 0 THEN One
    ELSE Rat(2 * Matches(a, b), Len(a) + Len(b))

\* ------------------------------------------- comparisons of one process
\* The summaries the extractor returns in a run of several comparisons.
BatchSummaries ==
    {BaseSummary,
     [BaseSummary EXCEPT !.rms_energy = 0],
     [BaseSummary EXCEPT !.tempo = 1],
     [BaseSummary EXCEPT !.mfcc_mean = <<1, 0, 1>>]}

\* What one call of main_enhanced_analysis leaves: the exception that left
\* the scorer, or the report and the label printed for it.
CallOutcome(c1, c2) ==
    LET e == FirstRaise(c1, c2)
    IN  [char1 |-> c1, char2 |-> c2, raised |-> e,
         result |-> IF e = "none" THEN <<Report(c1, c2)>> ELSE <<>>,
         interpretation |->
             IF e = "none" THEN Interpretation(Report(c1, c2).overall_similarity)
             ELSE ""]

\* A call that scores against the second summary the previous call left
\* behind (mutant).
CallStale(c1, c2, previous) ==
    IF previous = <<>> THEN CallOutcome(c1, c2)
    ELSE [CallOutcome(c1, previous[Len(previous)].char2) EXCEPT !.char2 = c2]

\* The call as the code makes it: the functions read their arguments only;
\* no module of the repository keeps state between calls.
Call(c1, c2, previous) == CallOutcome(c1, c2)

\* ------------------------------------------------- the AcoustID explorer
\* Python's None is <<>> and a value v is <<v>>.
None == <<>>

\* The api_key argument: None (the default), the empty string, a key.
ApiKeys == {None, <<"">>, <<"key">>}

\* Chromaprint fingerprints are bytes; decode('utf-8') gives their text.
FingerprintBytes == UNION {[1..l -> {65, 81}] : l \in 1..2}
ByteChar(c) == IF c = 65 THEN "A" ELSE IF c = 81 THEN "Q" ELSE "?"
Decode(bytes) == [i \in 1..Len(bytes) |-> ByteChar(bytes[i])]

\* What acoustid.fingerprint_file does: returns (duration, fingerprint), or
\* raises FingerprintGenerationError, or another exception (a missing
\* library, a bad path type).
Generations ==
    {[outcome |-> "ok", duration |-> d, fingerprint |-> f] :
        d \in 1..MaxVal, f \in FingerprintBytes}
    \cup {[outcome |-> e, duration |-> 0, fingerprint |-> <<>>] :
            e \in {"FingerprintGenerationError", "Exception"}}

\* What acoustid.lookup does: raises WebServiceError or another exception,
\* or returns the response.  pyacoustid returns the decoded JSON object, a
\* dict, whose iteration yields its keys; a list of matches is what the
\* display loop is written for.
Responses ==
    {[type |-> "dict", items |-> <<"status", "results">>],
     [type |-> "list", items |-> <<>>],
     [type |-> "list", items |-> <<"match">>]}
Lookups ==
    {[outcome |-> "ok", response |-> r] : r \in Responses}
    \cup {[outcome |-> e, response |-> [type |-> "none", items |-> <<>>]] :
            e \in {"WebServiceError", "Exception"}}

\* Python's truth value of the api_key argument.
Truthy(key) == key # None /\ key # <<"">>

\* The display loop reads result.score of every item: a str key has no such
\* attribute (AttributeError).
DisplayRaises(response) == response.type = "dict" /\ response.items # <<>>

\* The results record explore_acoustid_fingerprinting returns, given what
\* the library calls did.
Explore(key, gen, lookup) ==
    LET initial == [fingerprint |-> None, duration |-> None,
                    api_key_provided |-> key # None,
                    lookup_results |-> None, error |-> None]
        generated == [initial EXCEPT !.fingerprint = <<Decode(gen.fingerprint)>>,
                                     !.duration = <<gen.duration>>]
    IN  IF gen.outcome = "FingerprintGenerationError"
        THEN [initial EXCEPT !.error = <<"Fingerprint generation error">>]
        ELSE IF gen.outcome # "ok"
        THEN [initial EXCEPT !.error = <<"Unexpected error">>]
        ELSE IF ~Truthy(key) THEN generated
        ELSE IF lookup.outcome = "WebServiceError"
        THEN [generated EXCEPT !.error = <<"Web service error">>]
        ELSE IF lookup.outcome # "ok"
        THEN [generated EXCEPT !.error = <<"Lookup error">>]
        ELSE IF DisplayRaises(lookup.response)
        THEN [generated EXCEPT !.lookup_results = <<lookup.response>>,
                               !.error = <<"Lookup error">>]
        ELSE [generated EXCEPT !.lookup_results = <<lookup.response>>]

\* ------------------------------------------------- compare_fingerprints
\* The fingerprints acoustid.fingerprint_file may return for the two files
\* (bytes; the empty one included).
ComparedBytes == UNION {[1..l -> {65, 81}] : l \in 0..MaxStrLen}

\* What acoustid.fingerprint_file does for one file: returns (duration,
\* fingerprint) or raises.
ComparedGenerations ==
    {[outcome |-> "ok", duration |-> d, fingerprint |-> f] :
        d \in 1..MaxVal, f \in ComparedBytes}
    \cup {[outcome |-> e, duration |-> 0, fingerprint |-> <<>>] :
            e \in {"FingerprintGenerationError", "Exception"}}

\* sum(1 for a, b in zip(fingerprint1, fingerprint2) if a == b): zip stops
\* at the shorter argument.
RECURSIVE ZipEqual(_, _)
ZipEqual(f1, f2) ==
    IF f1 = <<>> \/ f2 = <<>> THEN 0
    ELSE (IF Head(f1) = Head(f2) THEN 1 ELSE 0) + ZipEqual(Tail(f1), Tail(f2))

\* The division of line 114 raises ZeroDivisionError.
SimilarityRaises(f1, f2) == Max(Len(f1), Len(f2)) = 0

\* The equal positions over the sum of the lengths (mutant).
PositionSimilarityOverSum(f1, f2) == Rat(ZipEqual(f1, f2), Len(f1) + Len(f2))

\* The similarity of line 114 (not evaluated when it raises).
PositionSimilarity(f1, f2) == Rat(ZipEqual(f1, f2), Max(Len(f1), Len(f2)))

\* The record compare_fingerprints returns, given what the two generations
\* did; the second is reached only after the first returned.
Compare(gen1, gen2) ==
    LET file(gen) == IF gen.outcome = "ok"
                     THEN [fingerprint |-> <<gen.fingerprint>>,
                           duration |-> <<gen.duration>>]
                     ELSE [fingerprint |-> None, duration |-> None]
        unset == [fingerprint |-> None, duration |-> None]
    IN  IF gen1.outcome # "ok"
        THEN [file1 |-> unset, file2 |-> unset, similarity |-> None,
              errors |-> <<gen1.outcome>>]
        ELSE IF gen2.outcome # "ok"
        THEN [file1 |-> file(gen1), file2 |-> unset, similarity |-> None,
              errors |-> <<gen2.outcome>>]
        ELSE IF SimilarityRaises(gen1.fingerprint, gen2.fingerprint)
        THEN [file1 |-> file(gen1), file2 |-> file(gen2), similarity |-> None,
              errors |-> <<"division by zero">>]
        ELSE [file1 |-> file(gen1), file2 |-> file(gen2),
              similarity |-> <<PositionSimilarity(gen1.fingerprint, gen2.fingerprint)>>,
              errors |-> <<>>]

VARIABLES
    pc,              \* "start", "scored", "raised" (exception, process ends), "done"
    char1, char2,    \* the two summaries the extractor returned
    raised,          \* the exception that ended the scorer, or "none"
    result,          \* <<>>, or <<r>> with r the scorer's returned dictionary
    interpretation,  \* the label main_enhanced_analysis prints, "" before
    label_pc,        \* the label tables: "start", "given", "interpreted", "done"
    similarity_score,\* the score both tables are given
    description,     \* the string interpret_similarity returned, "" before
    str_pc,          \* calculate_fingerprint_similarity: "start", "returned"
    fingerprint1, fingerprint2,  \* its two arguments
    similarity,      \* the ratio it returned
    batch_pc,        \* a process running comparisons: "running", "terminated"
    log,             \* what each of its calls left, in order
    explore_pc,      \* explore_acoustid_fingerprinting: "start", "returned"
    api_key,         \* its api_key argument
    steps,           \* what its library calls did: generation, lookup
    results,         \* the record it returned, None before
    compare_pc,      \* compare_fingerprints: "start", "returned"
    generations,     \* what its two fingerprint_file calls did
    comparison_results  \* the record it returned, None before

scorerVars == <<pc, char1, char2, raised, result>>
labelVars == <<label_pc, similarity_score, description>>
strVars == <<str_pc, fingerprint1, fingerprint2, similarity>>
batchVars == <<batch_pc, log>>
exploreVars == <<explore_pc, api_key, steps, results>>
compareVars == <<compare_pc, generations, comparison_results>>

vars == <<pc, char1, char2, raised, result, interpretation,
          label_pc, similarity_score, description,
          str_pc, fingerprint1, fingerprint2, similarity,
          batch_pc, log,
          explore_pc, api_key, steps, results,
          compare_pc, generations, comparison_results>>

ScorerIdle ==
    /\ pc = "start"
    /\ char1 = BaseSummary
    /\ char2 = BaseSummary
    /\ raised = "none"
    /\ result = <<>>
    /\ interpretation = ""

LabelIdle ==
    /\ label_pc = "start"
    /\ similarity_score = Zero
    /\ description = ""

StrIdle ==
    /\ str_pc = "start"
    /\ fingerprint1 = <<>>
    /\ fingerprint2 = <<>>
    /\ similarity = Zero

BatchIdle ==
    /\ batch_pc = "running"
    /\ log = <<>>

ExploreIdle ==
    /\ explore_pc = "start"
    /\ api_key = None
    /\ steps = [generation |-> "none", generated |-> None,
                lookup |-> "none", display |-> "none"]
    /\ results = None

CompareIdle ==
    /\ compare_pc = "start"
    /\ generations = <<>>
    /\ comparison_results = None

Init ==
    ScorerIdle /\ LabelIdle /\ StrIdle /\ BatchIdle /\ ExploreIdle /\ CompareIdle

\* main_enhanced_analysis calls enhanced_similarity_detection: the extractor
\* returns two summaries and the scorer runs on them.
enhanced_similarity_detection ==
    /\ pc = "start"
    /\ \E c1 \in Summaries : \E c2 \in SecondSummaries(c1) :
         /\ ExactCorr(c1.mfcc_mean, c2.mfcc_mean)
         /\ ExactCorr(c1.chroma_mean, c2.chroma_mean)
         /\ char1' = c1
         /\ char2' = c2
         /\ raised' = FirstRaise(c1, c2)
         /\ result' = IF FirstRaise(c1, c2) = "none" THEN <<Report(c1, c2)>> ELSE <<>>
         /\ pc' = IF FirstRaise(c1, c2) = "none" THEN "scored" ELSE "raised"
    /\ UNCHANGED <<interpretation, labelVars, strVars, batchVars, exploreVars, compareVars>>

\* main_enhanced_analysis after the scorer returned: the label.
main_enhanced_analysis ==
    /\ pc = "scored"
    /\ interpretation' = Interpretation(result[1].overall_similarity)
    /\ pc' = "done"
    /\ UNCHANGED <<char1, char2, raised, result, labelVars, strVars, batchVars, exploreVars, compareVars>>

Next == enhanced_similarity_detection \/ main_enhanced_analysis

Spec == Init /\ [][Next]_vars

\* ------------------------------------------------- the two label tables
\* A caller holds an overall similarity (main_comparison, main_enhanced_analysis).
given_score ==
    /\ label_pc = "start"
    /\ \E x \in Scores : similarity_score' = x
    /\ label_pc' = "given"
    /\ UNCHANGED <<scorerVars, interpretation, description, strVars, batchVars, exploreVars, compareVars>>

\* main_comparison prints interpret_similarity(overall_similarity).
interpret_similarity ==
    /\ label_pc = "given"
    /\ description' = InterpretSimilarity(similarity_score)
    /\ label_pc' = "interpreted"
    /\ UNCHANGED <<scorerVars, interpretation, similarity_score, strVars, batchVars, exploreVars, compareVars>>

\* The if/elif chain of main_enhanced_analysis on the same score.
interpret_overall ==
    /\ label_pc = "interpreted"
    /\ interpretation' = Interpretation(similarity_score)
    /\ label_pc' = "done"
    /\ UNCHANGED <<scorerVars, similarity_score, description, strVars, batchVars, exploreVars, compareVars>>

NextLabel == given_score \/ interpret_similarity \/ interpret_overall

SpecLabel == Init /\ [][NextLabel]_vars

\* ------------------------------------------- the fingerprint similarity
\* compare_audio_files_librosa and compare_audio_files_acoustid call
\* calculate_fingerprint_similarity on two fingerprint strings.
calculate_fingerprint_similarity ==
    /\ str_pc = "start"
    /\ \E a \in ShortStrings : \E b \in ShortStrings \cup LongStrings :
         /\ fingerprint1' = a
         /\ fingerprint2' = b
         /\ similarity' = SequenceMatcherRatio(a, b)
    /\ str_pc' = "returned"
    /\ UNCHANGED <<scorerVars, interpretation, labelVars, batchVars, exploreVars, compareVars>>

NextStr == calculate_fingerprint_similarity

SpecStr == Init /\ [][NextStr]_vars

\* ------------------------------------- several comparisons, one process
\* A script calls main_enhanced_analysis as the __main__ block does, one
\* pair after another.  This call returns.
analysis_returns ==
    /\ batch_pc = "running"
    /\ Len(log) < MaxRuns
    /\ \E c1 \in BatchSummaries : \E c2 \in BatchSummaries :
         /\ ExactCorr(c1.mfcc_mean, c2.mfcc_mean)
         /\ ExactCorr(c1.chroma_mean, c2.chroma_mean)
         /\ Call(c1, c2, log).raised = "none"
         /\ log' = Append(log, Call(c1, c2, log))
    /\ batch_pc' = "running"
    /\ UNCHANGED <<scorerVars, interpretation, labelVars, strVars, exploreVars, compareVars>>

\* This call raises in the scorer: neither main_enhanced_analysis (line 280)
\* nor the script (line 325) handles the exception, and the process ends
\* with a traceback.
analysis_raises ==
    /\ batch_pc = "running"
    /\ Len(log) < MaxRuns
    /\ \E c1 \in BatchSummaries : \E c2 \in BatchSummaries :
         /\ Call(c1, c2, log).raised # "none"
         /\ log' = Append(log, Call(c1, c2, log))
    /\ batch_pc' = "terminated"
    /\ UNCHANGED <<scorerVars, interpretation, labelVars, strVars, exploreVars, compareVars>>

NextBatch == analysis_returns \/ analysis_raises

SpecBatch == Init /\ [][NextBatch]_vars

\* ------------------------------------------------ one run of the explorer
\* The whole call: the library calls do what the environment decides (the
\* lookup and the display loop are reached only after a generated
\* fingerprint and with a truthy key), every exception is caught, the
\* record is returned.
explore_acoustid_fingerprinting ==
    /\ explore_pc = "start"
    /\ \E key \in ApiKeys : \E gen \in Generations : \E lookup \in Lookups :
         LET attempted == gen.outcome = "ok" /\ Truthy(key)
         IN  /\ api_key' = key
             /\ steps' =
                   [generation |-> gen.outcome,
                    generated |-> IF gen.outcome = "ok"
                                  THEN <<[duration |-> gen.duration,
                                          fingerprint |-> gen.fingerprint]>>
                                  ELSE None,
                    lookup |-> IF attempted THEN lookup.outcome ELSE "skipped",
                    display |-> IF attempted /\ lookup.outcome = "ok"
                                THEN (IF DisplayRaises(lookup.response)
                                      THEN "AttributeError" ELSE "ok")
                                ELSE "skipped"]
             /\ results' = <<Explore(key, gen, lookup)>>
    /\ explore_pc' = "returned"
    /\ UNCHANGED <<scorerVars, interpretation, labelVars, strVars, batchVars, compareVars>>

NextExplore == explore_acoustid_fingerprinting

SpecExplore == Init /\ [][NextExplore]_vars

\* ------------------------------------------------ one fingerprint comparison
\* The whole call: the first generation, the second if the first returned,
\* the similarity; every exception is caught and the record is returned.
compare_fingerprints ==
    /\ compare_pc = "start"
    /\ \E gen1 \in ComparedGenerations : \E gen2 \in ComparedGenerations :
         /\ gen1.outcome # "ok" => gen2 = gen1
         /\ generations' = IF gen1.outcome = "ok" THEN <<gen1, gen2>> ELSE <<gen1>>
         /\ comparison_results' = <<Compare(gen1, gen2)>>
    /\ compare_pc' = "returned"
    /\ UNCHANGED <<scorerVars, interpretation, labelVars, strVars, batchVars,
                   exploreVars>>

NextCompare == compare_fingerprints

SpecCompare == Init /\ [][NextCompare]_vars

\* ----------------------------------------------------------------- claims
Finished == pc # "start"
Returned == result # <<>>
Sims == result[1].similarities
Overall == result[1].overall_similarity

\* The error kinds of the scorer's contract.  Python has no InvalidInputError;
\* its exception for a malformed argument is ValueError, which is read as
\* that kind.  No exception of the code is read as
\* UndefinedCorrelationError, and ZeroDivisionError is an arithmetic fault.
ErrorKind(e) == IF e = "ValueError" THEN "InvalidInputError" ELSE e

NonPositive(c) == c.duration <= 0 \/ c.tempo <= 0 \/ c.sample_rate <= 0
Valid(c) == ~NonPositive(c)

Constant(x) == \A i \in 1..Len(x) : x[i] = x[1]

LengthMismatch ==
    \/ Len(char1.mfcc_mean) # Len(char2.mfcc_mean)
    \/ Len(char1.chroma_mean) # Len(char2.chroma_mean)

SomeConstantVector ==
    \/ Constant(char1.mfcc_mean) \/ Constant(char2.mfcc_mean)
    \/ Constant(char1.chroma_mean) \/ Constant(char2.chroma_mean)

\* Both summaries valid and both correlations defined: equal lengths, at
\* least two elements, no constant vector.
DefinedPair ==
    /\ Valid(char1) /\ Valid(char2)
    /\ Len(char1.mfcc_mean) = Len(char2.mfcc_mean)
    /\ Len(char1.chroma_mean) = Len(char2.chroma_mean)
    /\ ~SomeConstantVector

\* No closeness feature compares two zeros (the division is defined).
NoZeroPair ==
    \A f \in {"duration", "rms_energy", "spectral_centroid_mean",
              "spectral_rolloff_mean", "tempo"} :
        char1[f] > 0 \/ char2[f] > 0

\* C1 (as claimed): whenever either summary has a non-positive duration,
\* tempo or sample rate, the scorer fails with InvalidInputError and returns
\* no report.  Stated on the inputs where no division by zero and no
\* length mismatch ends the call for another reason.
C1_NonPositiveRejected ==
    (Finished /\ (NonPositive(char1) \/ NonPositive(char2))
              /\ NoZeroPair /\ ~LengthMismatch)
        => (result = <<>> /\ ErrorKind(raised) = "InvalidInputError")

\* C2 (as claimed): whenever mfcc_mean or chroma_mean of the first summary
\* has another length than the same field of the second, the scorer fails
\* with InvalidInputError and produces no numeric similarity.
C2_MismatchRejected ==
    (Finished /\ LengthMismatch)
        => (result = <<>> /\ ErrorKind(raised) = "InvalidInputError")

\* C3 (as claimed): whenever a cepstral or chroma vector is constant, the
\* scorer fails with UndefinedCorrelationError and returns no report.
\* Stated on the inputs where no division by zero and no length mismatch
\* ends the call for another reason.
C3_ConstantRejected ==
    (Finished /\ SomeConstantVector /\ NoZeroPair /\ ~LengthMismatch)
        => (result = <<>> /\ ErrorKind(raised) = "UndefinedCorrelationError")

\* C4 (as claimed): a valid summary scored against itself gets nine
\* similarities of 1, an aggregate of 1 and the label IDENTICAL.
C4_SelfIdentical ==
    (pc = "done" /\ char1 = char2 /\ DefinedPair)
        => /\ \A f \in FeatureSet : Sims[f] = One
           /\ Overall = One
           /\ interpretation = "IDENTICAL"

\* C5: scoring (B, A) ends as scoring (A, B) did: the same exception, or a
\* report with the same nine similarities (NaN where NaN) and the same
\* aggregate.
C5_Symmetric ==
    Finished =>
        /\ FirstRaise(char2, char1) = raised
        /\ Returned =>
             LET swapped == Report(char2, char1)
             IN  /\ \A f \in FeatureSet : swapped.similarities[f] = Sims[f]
                 /\ swapped.overall_similarity = Overall

\* C5's case: two different summaries were scored and a closeness feature
\* and a correlation feature both came out strictly between 0 and 1.
C5_Witness ==
    /\ Returned
    /\ char1 # char2
    /\ \E f \in ClosenessFeatures : RGt(Sims[f], Zero) /\ RGt(One, Sims[f])
    /\ \E f \in CorrelationFeatures : RGt(Sims[f], Zero) /\ RGt(One, Sims[f])

\* C6 (as claimed): for valid summaries every similarity of the report lies
\* in [0, 1], mfcc and chroma included.
C6_UnitInterval ==
    (Returned /\ DefinedPair)
        => \A f \in FeatureSet : RGe(Sims[f], Zero) /\ RGe(One, Sims[f])

\* The summary field each closeness feature is claimed to compare.
ClosenessField ==
    [duration |-> "duration", energy |-> "rms_energy",
     spectral_centroid |-> "spectral_centroid_mean",
     spectral_rolloff |-> "spectral_rolloff_mean", tempo |-> "tempo"]

\* C7: in every report, a closeness feature with values a, b and
\* m = max(a, b) > 0 has the similarity s with s = 0 when 1 - |a - b| / m <= 0
\* and s * m = m - |a - b| otherwise.
C7_ClosenessFormula ==
    Returned =>
        \A f \in DOMAIN ClosenessField :
            LET a == char1[ClosenessField[f]]
                b == char2[ClosenessField[f]]
                m == IF a >= b THEN a ELSE b
                s == Sims[f]
            IN  m > 0 =>
                  /\ s.d > 0
                  /\ IF m - Abs(a - b) <= 0 THEN s.n = 0
                     ELSE s.n * m = (m - Abs(a - b)) * s.d

\* C7's case: a report in which a closeness feature compared two different
\* positive values.
C7_Witness ==
    /\ Returned
    /\ \E f \in DOMAIN ClosenessField :
         /\ char1[ClosenessField[f]] > 0
         /\ char2[ClosenessField[f]] > char1[ClosenessField[f]]
         /\ RGt(Sims[f], Zero) /\ RGt(One, Sims[f])

\* C8 (as claimed): when both values of a closeness feature are zero the
\* scorer completes and reports 1 for that feature.
C8_BothZeroIsOne ==
    \A f \in DOMAIN ClosenessField :
        (Finished /\ char1[ClosenessField[f]] = 0 /\ char2[ClosenessField[f]] = 0)
            => (Returned /\ Sims[f] = One)

\* C9: in every report, harmonic_ratio and percussive_ratio similarities
\* are max(0, 1 - |a - b|): with a = j / RatioDen and b = k / RatioDen, 0 when
\* |j - k| >= RatioDen and (RatioDen - |j - k|) / RatioDen otherwise.
C9_RatioFormula ==
    Returned =>
        \A f \in {"harmonic_ratio", "percussive_ratio"} :
            LET k == Abs(char1[f] - char2[f])
                s == Sims[f]
            IN  /\ s.d > 0
                /\ IF k >= RatioDen THEN s.n = 0
                   ELSE s.n * RatioDen = (RatioDen - k) * s.d

\* C9's case: a report where one ratio feature is strictly between 0 and 1
\* although one of its two ratios is 0 (a division by max(a, b) would give
\* 0), and the other ratio feature's difference exceeds 1 and is clamped.
C9_Witness ==
    /\ Returned
    /\ \E f \in {"harmonic_ratio", "percussive_ratio"} :
         /\ char1[f] = 0
         /\ char2[f] > 0
         /\ RGt(Sims[f], Zero) /\ RGt(One, Sims[f])
    /\ \E g \in {"harmonic_ratio", "percussive_ratio"} :
         /\ Abs(char1[g] - char2[g]) > RatioDen
         /\ Sims[g] = Zero

\* C10: the aggregate of a report is the sum of the nine similarities the
\* report stores, each once, divided by nine (NaN when one of them is NaN).
C10_AggregateIsMean ==
    Returned =>
        LET total ==
              RAdd(Sims["duration"], RAdd(Sims["energy"],
              RAdd(Sims["spectral_centroid"], RAdd(Sims["spectral_rolloff"],
              RAdd(Sims["mfcc"], RAdd(Sims["chroma"], RAdd(Sims["tempo"],
              RAdd(Sims["harmonic_ratio"], Sims["percussive_ratio"]))))))))
        IN  /\ DOMAIN Sims = FeatureSet
            /\ Cardinality(FeatureSet) = 9
            /\ IF \E f \in FeatureSet : IsNaN(Sims[f]) THEN IsNaN(Overall)
               ELSE Overall.d > 0 /\ Overall.n * total.d * 9 = total.n * Overall.d

\* C10's case: a report with no NaN in which two features differ from 1 and
\* from each other.
C10_Witness ==
    /\ Returned
    /\ \A f \in FeatureSet : ~IsNaN(Sims[f])
    /\ \E f, g \in FeatureSet : Sims[f] # One /\ Sims[g] # One /\ Sims[f] # Sims[g]
    /\ Overall # One

\* ---------------------------------------------------------- label claims
\* The six-tier table, in the spelling of the code's labels (the table
\* writes VERY_SIMILAR for the code's "VERY SIMILAR").
SixTierLabel(x) ==
    IF RGe(x, Rat(95, 100)) THEN "IDENTICAL"
    ELSE IF RGe(x, Rat(80, 100)) THEN "VERY SIMILAR"
    ELSE IF RGe(x, Rat(60, 100)) THEN "SIMILAR"
    ELSE IF RGe(x, Rat(40, 100)) THEN "SOMEWHAT SIMILAR"
    ELSE IF RGe(x, Rat(20, 100)) THEN "SLIGHTLY SIMILAR"
    ELSE "DIFFERENT"

\* The tier a string of interpret_similarity starts with (before " - ").
TierOf(d) ==
    CASE d = "IDENTICAL - Same audio file" -> "IDENTICAL"
      [] d = "VERY SIMILAR - Likely same content with minor differences" -> "VERY SIMILAR"
      [] d = "SIMILAR - Related audio content" -> "SIMILAR"
      [] d = "SOMEWHAT SIMILAR - Some common characteristics" -> "SOMEWHAT SIMILAR"
      [] d = "SLIGHTLY SIMILAR - Minimal common features" -> "SLIGHTLY SIMILAR"
      [] d = "DIFFERENT - Unrelated audio content" -> "DIFFERENT"
      [] OTHER -> "?"

\* C11 (as claimed): whenever the scorer labelled an aggregate of [0, 1],
\* the label is the one the six-tier table gives that aggregate.
C11_SixTierTable ==
    (pc = "done" /\ RGe(Overall, Zero) /\ RGe(One, Overall))
        => interpretation = SixTierLabel(Overall)

\* C17: a score above 1 gets, from either table, the label that table
\* gives 1, and a score below 0 the label that table gives 0.
C17_LabelAsClamped ==
    label_pc = "done" =>
        /\ RGt(similarity_score, One) =>
             /\ description = InterpretSimilarity(One)
             /\ interpretation = Interpretation(One)
        /\ RGt(Zero, similarity_score) =>
             /\ description = InterpretSimilarity(Zero)
             /\ interpretation = Interpretation(Zero)

\* C17's case: both tables have labelled a score above 1.
C17_Witness ==
    /\ label_pc = "done"
    /\ RGt(similarity_score, One)
    /\ TierOf(description) = "IDENTICAL"
    /\ interpretation = "VERY SIMILAR"

\* C19: the two tables give a score the same tier exactly when the score is
\* not >= 0.95; a score >= 0.95 is IDENTICAL for interpret_similarity and
\* VERY SIMILAR for main_enhanced_analysis.
C19_TablesAgreeBelow95 ==
    label_pc = "done" =>
        /\ (TierOf(description) = interpretation)
               <=> ~RGe(similarity_score, Rat(95, 100))
        /\ RGe(similarity_score, Rat(95, 100)) =>
               /\ TierOf(description) = "IDENTICAL"
               /\ interpretation = "VERY SIMILAR"
        /\ interpretation \in {"VERY SIMILAR", "SIMILAR", "SOMEWHAT SIMILAR",
                                "SLIGHTLY SIMILAR", "DIFFERENT"}

\* C19's case: both tables have labelled a score of [0.8, 0.95) and agree
\* on VERY SIMILAR.
C19_Witness ==
    /\ label_pc = "done"
    /\ RGe(similarity_score, Rat(80, 100))
    /\ ~RGe(similarity_score, Rat(95, 100))
    /\ TierOf(description) = "VERY SIMILAR"
    /\ interpretation = "VERY SIMILAR"

\* ------------------------------------------------ one differing feature
\* The two summaries differ in the field of closeness feature f and in
\* nothing else.
DiffersOnlyIn(f) ==
    /\ char1[ClosenessField[f]] # char2[ClosenessField[f]]
    /\ \A g \in (DOMAIN char1) \ {ClosenessField[f]} : char1[g] = char2[g]

\* C16 (as claimed): when two valid summaries with defined correlations
\* differ only in one scalar closeness feature, the scorer reports
\* 1 - |a - b| / max(a, b) for that feature, exactly 1 for the other eight,
\* and (8 + that value) / 9 as the aggregate.
C16_SingleFeatureDiffers ==
    \A f \in DOMAIN ClosenessField :
        (Finished /\ DefinedPair /\ DiffersOnlyIn(f)) =>
            /\ Returned
            /\ LET a == char1[ClosenessField[f]]
                   b == char2[ClosenessField[f]]
                   m == IF a >= b THEN a ELSE b
                   s == Sims[f]
               IN  /\ s.d > 0
                   /\ s.n * m = (m - Abs(a - b)) * s.d
                   /\ \A g \in (DOMAIN Sims) \ {f} : Sims[g] = One
                   /\ Overall.d > 0
                   /\ 9 * Overall.n * s.d = (8 * s.d + s.n) * Overall.d

\* ------------------------------------------- fingerprint string claims
\* C12: the fingerprint similarity is 1 when both strings are empty and 0
\* when exactly one of them is empty (the call returns; nothing is raised
\* on the zero total length).
C12_EmptyStrings ==
    str_pc = "returned" =>
        /\ (fingerprint1 = <<>> /\ fingerprint2 = <<>>) => similarity = One
        /\ ((fingerprint1 = <<>>) # (fingerprint2 = <<>>)) => similarity = Zero

\* C12's case: the call on two empty strings has returned 1.
C12_Witness ==
    /\ str_pc = "returned"
    /\ fingerprint1 = <<>>
    /\ fingerprint2 = <<>>
    /\ similarity = One

\* The total length of the blocks of the greedy longest-common-substring
\* recursion: every item of b is indexed.
GreedyMatches(a, b) == MatchTotal(a, b, {}, 0, Len(a), 0, Len(b))

SharedItems(a, b) == {a[i] : i \in 1..Len(a)} \cap {b[j] : j \in 1..Len(b)}

\* C13 (as claimed): for strings a, b not both empty the returned ratio is
\* 2 * M / T with M the greedy recursion's total and T = len(a) + len(b);
\* it is in [0, 1], 1 when a = b and 0 when a and b share no character.
C13_RatioIsGreedy ==
    LET a == fingerprint1
        b == fingerprint2
        T == Len(a) + Len(b)
    IN  (str_pc = "returned" /\ T > 0) =>
            /\ similarity.d > 0
            /\ similarity.n * T = 2 * GreedyMatches(a, b) * similarity.d
            /\ RGe(similarity, Zero) /\ RGe(One, similarity)
            /\ a = b => similarity = One
            /\ SharedItems(a, b) = {} => similarity = Zero

\* C18 (as claimed): the returned ratio is the ratio of the swapped call.
C18_StringSymmetric ==
    str_pc = "returned" =>
        similarity = SequenceMatcherRatio(fingerprint2, fingerprint1)

C15_FailureScoped ==
    \A n \in 1..Len(log) :
        ErrorKind(log[n].raised) \in {"InvalidInputError", "UndefinedCorrelationError"}
            => batch_pc = "running"

\* ------------------------------------------------ claims about the explorer
\* C20 (as claimed): the explorer returns its record; after a failed
\* generation fingerprint, duration and lookup_results are None and error
\* is set; a lookup is attempted only after a generated fingerprint and
\* with an API key given; after a failed lookup error is set, fingerprint
\* and duration are the generated ones and lookup_results is None; error is
\* None exactly when neither the generation nor the lookup failed.
C20_ExploreErrorHandling ==
    explore_pc = "returned" =>
        LET r == results[1]
            lookupFailed == steps.lookup \in {"WebServiceError", "Exception"}
        IN  /\ steps.generation # "ok" =>
                 /\ r.fingerprint = None /\ r.duration = None
                 /\ r.lookup_results = None /\ r.error # None
            /\ steps.lookup # "skipped" =>
                 steps.generation = "ok" /\ api_key # None
            /\ lookupFailed =>
                 /\ r.error # None
                 /\ r.fingerprint = <<Decode(steps.generated[1].fingerprint)>>
                 /\ r.duration = <<steps.generated[1].duration>>
                 /\ r.lookup_results = None
            /\ (r.error = None) <=> (steps.generation = "ok" /\ ~lookupFailed)

\* ------------------------------------------- claims about the comparison
\* Both generations returned and the similarity's denominator is not zero.
CompareSucceeded ==
    /\ Len(generations) = 2
    /\ generations[2].outcome = "ok"
    /\ Len(generations[1].fingerprint) + Len(generations[2].fingerprint) > 0

\* C21: compare_fingerprints returns its record.  On success the similarity
\* s is (number of positions below both lengths where the fingerprints
\* agree) / (the longer length), 0 <= s <= 1, s = 1 exactly when the
\* fingerprints are equal and non-empty, and errors is empty; on a failure
\* (a generation raised, or both fingerprints are empty) similarity is None
\* and errors holds exactly one message.
C21_CompareFingerprints ==
    compare_pc = "returned" =>
        LET r == comparison_results[1]
        IN  IF CompareSucceeded
            THEN LET f1 == generations[1].fingerprint
                     f2 == generations[2].fingerprint
                     shorter == IF Len(f1) <= Len(f2) THEN Len(f1) ELSE Len(f2)
                     longer == IF Len(f1) >= Len(f2) THEN Len(f1) ELSE Len(f2)
                     agree == Cardinality({i \in 1..shorter : f1[i] = f2[i]})
                     s == r.similarity[1]
                 IN  /\ r.similarity # None
                     /\ s.d > 0
                     /\ s.n * longer = agree * s.d
                     /\ RGe(s, Zero) /\ RGe(One, s)
                     /\ (s = One) <=> (f1 = f2 /\ f1 # <<>>)
                     /\ r.errors = <<>>
            ELSE /\ r.similarity = None
                 /\ Len(r.errors) = 1

\* C21's case: two fingerprints of different lengths were compared and got
\* a similarity strictly between 0 and 1.
C21_Witness ==
    /\ compare_pc = "returned"
    /\ CompareSucceeded
    /\ Len(generations[1].fingerprint) # Len(generations[2].fingerprint)
    /\ comparison_results[1].similarity # None
    /\ RGt(comparison_results[1].similarity[1], Zero)
    /\ RGt(One, comparison_results[1].similarity[1])
    /\ comparison_results[1].errors = <<>>

====
